---- MODULE Spec2Model ----
(***************************************************************************)
(* Model of app.py (Simple Twitch Monitor): the registry store["streamers"],*)
(* its persisted copy, the EventSub handlers, the admin add/remove          *)
(* operations, the WebSocket subscriber list WS_CLIENTS with its broadcast, *)
(* and the Discord webhook notification.                                    *)
(*                                                                          *)
(* The program is one asyncio event loop.  A coroutine runs without        *)
(* interruption from one await that performs I/O to the next, so one       *)
(* action of this model is one such run: it starts when a handler is       *)
(* invoked or resumed and ends where the handler next awaits I/O or        *)
(* returns.  A send on a websocket writes the frame when it is called and  *)
(* then awaits; the message is therefore delivered in the action that      *)
(* calls send_text and the handler resumes in a later action.              *)
(***************************************************************************)
EXTENDS Integers, Sequences, FiniteSets, TLC

\* ------------------------------------------------------------------ bounds
MaxEvents == 2      \* EventSub callbacks invoked in one behaviour
MaxAdmin  == 2      \* admin add/remove requests in one behaviour
MaxTasks  == 2      \* handlers suspended at an await at the same time
MaxSubs   == 2      \* websocket connections opened in one behaviour
MaxFaults == 1      \* failing writes of store.json in one behaviour

\* ------------------------------------------------------------- value sets
Logins  == {"alice", "bob"}
UIDs    == {"u1", "u2"}          \* user ids the login lookup may answer
EventUIDs == UIDs \cup {"u9"}    \* broadcaster_user_id of inbound events
Times   == {"T1", "T2"}          \* ISO timestamps
Titles  == {"t1"}
GameIds == {"g1", "g2"}
None    == "None"                \* Python None
Refs    == 1 .. (Cardinality(Logins) + MaxTasks)   \* identities of record dicts
TaskIds == 1 .. MaxTasks
Subs    == 1 .. MaxSubs          \* WebSocket objects
Kinds   == {"live", "offline", "metadata_update"}   \* the three listen_* calls

\* what the external lookups answer
DisplayNameOf(uid) == IF uid = "u1" THEN "U_One" ELSE "U_Two"
NameOfGame(gid)    == IF gid = "g1" THEN "Game One" ELSE "Game Two"

Free == [free |-> TRUE]          \* a heap cell holding no record

VARIABLES
    streamers,    \* store["streamers"]: the dict in insertion order, <<[login, ref]>>
    heap,         \* the record dicts themselves, by identity
    webhook,      \* store["discord"]["webhook"]
    disk,         \* the registry as last written to store.json
    GAME_CACHE,   \* game ids with a cached name
    WS_CLIENTS,   \* list of connected websockets
    wsState,      \* per websocket: position of its ws_endpoint handler
    inbox,        \* per websocket: what the browser has received
    tasks,        \* suspended handlers
    faultsLeft,   \* writes of store.json that may still fail
    nEvents,      \* history: EventSub callbacks invoked so far
    nAdmin,       \* history: admin requests made so far
    lastNote,     \* history: the webhook post started last
    lastBcast,    \* history: the broadcast that returned last
    lastEv,       \* history: per login, kind of the last live/offline event
                  \*          delivered for the record's user_id since it was added
    raised,       \* history: handlers that ended by raising
    lastEvt,      \* history: the event delivered last
    lastPost,     \* history: how the webhook POST that ended last ended
    nSaves,       \* history: completed writes of store.json
    creds,        \* store["twitch"]: client_id and client_secret are both set
    twitch,       \* the global twitch is a client (not None)
    es,           \* the global es: "none" or "set"
    nConn,        \* history: EventSubWebsocket connections made (es.listen() calls)
    subs,         \* per user id and event kind: listen_* calls that have returned
    lastUpd,      \* history: the channel.update event applied last
    lastAdd       \* history: how the add request resolved last was answered

vars == <<streamers, heap, webhook, disk, GAME_CACHE, WS_CLIENTS, wsState, inbox,
          tasks, faultsLeft, nEvents, nAdmin, lastNote, lastBcast, lastEv, raised,
          lastEvt, lastPost, nSaves, creds, twitch, es, nConn, subs, lastUpd, lastAdd>>

\* the Twitch client, the EventSub connection and its subscriptions
upstream == <<creds, twitch, es, nConn, subs>>

\* ---------------------------------------------------------------- helpers
SeqToSet(s) == {s[k] : k \in 1 .. Len(s)}

Min(S) == CHOOSE x \in S : \A y \in S : x <= y

Max(S) == CHOOSE x \in S : \A y \in S : x >= y

\* list.remove(x): drop the first occurrence; ValueError (absent) is swallowed
\* by both callers
RemoveFirst(s, x) ==
    IF \E k \in 1 .. Len(s) : s[k] = x
    THEN LET k == Min({j \in 1 .. Len(s) : s[j] = x})
         IN  SubSeq(s, 1, k - 1) \o SubSeq(s, k + 1, Len(s))
    ELSE s

RECURSIVE RemoveAll(_, _)
RemoveAll(s, ds) ==
    IF ds = <<>> THEN s ELSE RemoveAll(RemoveFirst(s, Head(ds)), Tail(ds))

Count(s, x) == Cardinality({k \in 1 .. Len(s) : s[k] = x})

\* json.dumps of store["streamers"]: the records in dict order
Snapshot(st, h) == [k \in 1 .. Len(st) |-> [login |-> st[k].login, rec |-> h[st[k].ref]]]

HasLogin(st, l) == \E k \in 1 .. Len(st) : st[k].login = l
IndexOf(st, l)  == Min({k \in 1 .. Len(st) : st[k].login = l})
RefOf(st, l)    == st[IndexOf(st, l)].ref

\* the loop with the comparison of user_id left out
MatchesAny(st, h, uid) == 1 .. Len(st)

\* for login, s in store["streamers"].items(): if s.get("user_id") == uid
Matches(st, h, uid) == {k \in 1 .. Len(st) : h[st[k].ref].user_id = uid}
HasMatch(st, h, uid) == Matches(st, h, uid) # {}
FirstMatch(st, h, uid) == st[Min(Matches(st, h, uid))]

NewRecord(uid, lastLive) ==
    [user_id |-> uid, display_name |-> DisplayNameOf(uid), is_live |-> FALSE,
     last_live |-> lastLive, started_at |-> "", title |-> "", game_id |-> "",
     game_name |-> ""]

IdleTask ==
    [kind |-> "idle", pc |-> "idle", login |-> "", s |-> 0, gid |-> "", uid |-> "",
     i |-> 0, dead |-> <<>>, saved |-> <<>>, clients0 |-> {},
     sentTo |-> <<>>, edge |-> FALSE, at |-> 0, todo |-> <<>>, fresh |-> FALSE,
     seq |-> 0]

\* history of one broadcast: the websockets that were in WS_CLIENTS when it began
\* and still are when its loop ends but were never passed to send_text (missed),
\* those passed to it more than once (twice), those whose send raised (failed)
\* and those of them still in WS_CLIENTS when it returns (deadLeft)
NoBcast == [n |-> 0, missed |-> {}, twice |-> {}, failed |-> {}, deadLeft |-> {}]

NoNote == [n |-> 0, desc |-> <<>>, edge |-> FALSE]

NoEvent == [kind |-> "none", uid |-> ""]

NoUpdate == [uid |-> "", title |-> None, gid |-> "", ref |-> 0]

\* the add request resolved last: how many have been, what the lookup gave
\* (a user id, "notfound", or "noclient" when there is no Twitch client) and
\* what the handler did ("400": answered User not found, "stored")
NoAdd == [n |-> 0, res |-> "", resp |-> "none"]

NoSubs == [u \in UIDs |-> [k \in Kinds |-> 0]]

\* one more returned listen_* call for user id u and kind k
Subscribed(sb, u, k) == [sb EXCEPT ![u][k] = @ + 1]

TaskTag(t) == ToString(t)

\* what a browser has received: where its first message came from ("none",
\* "initial": the endpoint's own send, "broadcast"), the content of its last
\* message and the sender of that: "initial", the handler (its task tag) whose
\* broadcast is still running, or "past" once that broadcast has returned
EmptyInbox == [firstFrom |-> "none", last |-> <<>>, lastFrom |-> "none"]

FreeTasks == {t \in TaskIds : tasks[t].kind = "idle"}

\* record dicts still referenced by the registry or by a handler's local s
Live(st, tk) == {st[k].ref : k \in 1 .. Len(st)} \cup {tk[t].s : t \in TaskIds}
Collect(h, st, tk) == [r \in Refs |-> IF r \in Live(st, tk) THEN h[r] ELSE Free]
FreshRef(st, tk) == Min(Refs \ Live(st, tk))


\* ------------------------------------------------------------------- Init
\* load_store() of a store.json left by an earlier run: credentials set, two
\* tracked channels, both offline; on_startup has created the Twitch client.
InitStreamers == <<[login |-> "alice", ref |-> 1], [login |-> "bob", ref |-> 2]>>
InitHeap ==
    [r \in Refs |-> IF r = 1 THEN NewRecord("u1", "")
                    ELSE IF r = 2 THEN NewRecord("u2", "") ELSE Free]

InitWith(faults, hooks) ==
    /\ streamers = InitStreamers
    /\ heap = InitHeap
    /\ webhook \in hooks
    /\ disk = Snapshot(InitStreamers, InitHeap)
    /\ GAME_CACHE = {}
    /\ WS_CLIENTS = <<>>
    /\ wsState = [w \in Subs |-> "idle"]
    /\ inbox = [w \in Subs |-> EmptyInbox]
    /\ tasks = [t \in TaskIds |-> IdleTask]
    /\ faultsLeft = faults
    /\ nEvents = 0
    /\ nAdmin = 0
    /\ lastNote = NoNote
    /\ lastBcast = NoBcast
    /\ lastEv = [l \in Logins |-> "none"]
    /\ raised = {}
    /\ lastEvt = NoEvent
    /\ lastPost = "none"
    /\ nSaves = 0
    /\ creds = TRUE
    /\ twitch = TRUE
    /\ es = "set"
    /\ nConn = 1
    /\ subs = [u \in UIDs |-> [k \in Kinds |-> 1]]
    /\ lastUpd = NoUpdate
    /\ lastAdd = NoAdd

Init == InitWith(0, {"url"})

\* a first run (DEFAULT_STORE: nothing tracked, no webhook) after on_startup,
\* which made no client and no connection for want of credentials (c = FALSE),
\* or that state after an admin has set the credentials (c = TRUE)
InitFresh(c) ==
    /\ streamers = <<>>
    /\ heap = [r \in Refs |-> Free]
    /\ webhook = ""
    /\ disk = <<>>
    /\ GAME_CACHE = {}
    /\ WS_CLIENTS = <<>>
    /\ wsState = [w \in Subs |-> "idle"]
    /\ inbox = [w \in Subs |-> EmptyInbox]
    /\ tasks = [t \in TaskIds |-> IdleTask]
    /\ faultsLeft = 0
    /\ nEvents = 0
    /\ nAdmin = 0
    /\ lastNote = NoNote
    /\ lastBcast = NoBcast
    /\ lastEv = [l \in Logins |-> "none"]
    /\ raised = {}
    /\ lastEvt = NoEvent
    /\ lastPost = "none"
    /\ nSaves = 0
    /\ creds = c
    /\ twitch = c
    /\ es = "none"
    /\ nConn = 0
    /\ subs = NoSubs
    /\ lastUpd = NoUpdate
    /\ lastAdd = NoAdd

\* ------------------------------------------------------ websocket sends
\* ws.send_text on a socket: delivered to an open one; on one whose peer has
\* gone the write either raises or is accepted and lost; it raises on a socket
\* whose endpoint handler has ended.
SendOutcomes(w) ==
    IF wsState[w] = "open" THEN {"delivered"}
    ELSE IF wsState[w] = "closed" THEN {"raise", "lost"}
    ELSE {"raise"}

Deliver(box, content, from) ==
    [box EXCEPT !.firstFrom = IF box.firstFrom # "none" THEN box.firstFrom
                              ELSE IF from = "initial" THEN "initial" ELSE "broadcast",
                !.last = content,
                !.lastFrom = from]

\* ------------------------------------------------------------- Discord
\* iso_to_hhmm
Hhmm(iso) == IF iso = "" THEN "" ELSE <<"hhmm", iso>>

OnlineDesc(login, rec) ==
    [kind |-> "went_live", login |-> login, display_name |-> rec.display_name,
     title |-> IF rec.title \in {"", None} THEN "is live!" ELSE rec.title,
     game |-> IF rec.game_name \in {"", None} THEN "" ELSE rec.game_name,
     when |-> Hhmm(rec.started_at)]

OfflineDesc(login, rec) ==
    [kind |-> "went_offline", login |-> login, display_name |-> rec.display_name,
     title |-> "", game |-> "", when |-> Hhmm(rec.last_live)]

\* whether the handler calls discord_notify_* after the broadcast: on_online
\* and on_offline call it unconditionally
CallsNotify(tk) == tk.kind \in {"on_online", "on_offline"}

\* discord_notify_online / discord_notify_offline up to the await of the POST
NotifyPosts(tk) == CallsNotify(tk) /\ webhook # ""

Note(tk, h) ==
    [n |-> 1,
     desc |-> IF tk.kind = "on_online" THEN OnlineDesc(tk.login, h[tk.s])
              ELSE OfflineDesc(tk.login, h[tk.s]),
     edge |-> tk.edge]

\* ---------------------------------------------------------- the broadcast
\* push_update_to_clients from the position tk.i of "for ws in WS_CLIENTS", run
\* until the handler next suspends; st and h are the registry as the caller
\* leaves it.  The list iterator holds an index into the live list: it yields
\* WS_CLIENTS[i+1] while i < len, whatever has been appended or removed
\* meanwhile.  The payload holds a reference to store["streamers"] and is
\* serialised at every send.
NextClient(tk) == WS_CLIENTS[tk.i + 1]

RunPush(t, tk, st, h) ==
    /\ streamers' = st
    /\ IF tk.i < Len(WS_CLIENTS)
       THEN \E out \in SendOutcomes(NextClient(tk)) :
              LET w == NextClient(tk) IN
              /\ inbox' = IF out = "delivered"
                          THEN [inbox EXCEPT ![w] = Deliver(@, Snapshot(st, h), TaskTag(t))]
                          ELSE inbox
              /\ tasks' = [tasks EXCEPT ![t] =
                     [tk EXCEPT !.pc = "send", !.i = tk.i + 1,
                                !.dead = IF out = "raise" THEN Append(@, w) ELSE @,
                                !.sentTo = Append(@, w)]]
              /\ UNCHANGED <<WS_CLIENTS, lastNote, lastBcast>>
       ELSE /\ WS_CLIENTS' = RemoveAll(WS_CLIENTS, tk.dead)
            /\ lastBcast' =
                 [n |-> 1,
                  missed |-> (tk.clients0 \cap SeqToSet(WS_CLIENTS)) \ SeqToSet(tk.sentTo),
                  twice |-> {w \in Subs : Count(tk.sentTo, w) > 1},
                  failed |-> SeqToSet(tk.dead),
                  deadLeft |-> SeqToSet(tk.dead)
                                 \cap SeqToSet(RemoveAll(WS_CLIENTS, tk.dead))]
            /\ inbox' = [w \in Subs |-> IF inbox[w].lastFrom = TaskTag(t)
                                         THEN [inbox[w] EXCEPT !.lastFrom = "past"]
                                         ELSE inbox[w]]
            /\ IF NotifyPosts(tk)
               THEN /\ lastNote' = Note(tk, h)
                    /\ tasks' = [tasks EXCEPT ![t] =
                                    [tk EXCEPT !.pc = "post", !.at = nEvents']]
               ELSE /\ lastNote' = lastNote
                    /\ tasks' = [tasks EXCEPT ![t] = IdleTask]
    /\ heap' = Collect(h, st, tasks')

\* a handler that starts its broadcast: payload built, iteration begins
StartPush(t, tk, st, h) ==
    RunPush(t, [tk EXCEPT !.i = 0, !.dead = <<>>, !.sentTo = <<>>,
                          !.clients0 = SeqToSet(WS_CLIENTS)], st, h)

\* the handler resumes from the send it was suspended in
push_resume(t) ==
    /\ UNCHANGED <<upstream, lastUpd, lastAdd>>
    /\ tasks[t].pc = "send"
    /\ UNCHANGED <<webhook, disk, nSaves, GAME_CACHE, wsState, faultsLeft, nEvents, nAdmin,
                   lastEv, raised, lastEvt, lastPost>>
    /\ RunPush(t, tasks[t], streamers, heap)

\* discord_post_return with the exception of a failed POST left to propagate
discord_post_raises(t, ok) ==
    /\ UNCHANGED <<upstream, lastUpd, lastAdd>>
    /\ tasks[t].pc = "post"
    /\ tasks' = [tasks EXCEPT ![t] = IdleTask]
    /\ heap' = Collect(heap, streamers, tasks')
    /\ lastEvt' = lastEvt
    /\ lastPost' = IF ok THEN "ok" ELSE "failed"
    /\ raised' = IF ok THEN raised ELSE raised \cup {tasks[t].kind}
    /\ UNCHANGED <<streamers, webhook, disk, nSaves, GAME_CACHE, WS_CLIENTS, wsState, inbox,
                   faultsLeft, nEvents, nAdmin, lastNote, lastBcast, lastEv>>

\* the awaited client.post returns or raises (timeout, network error); the
\* exception is swallowed and the handler returns
discord_post_return(t, ok) ==
    /\ UNCHANGED <<upstream, lastUpd, lastAdd>>
    /\ tasks[t].pc = "post"
    /\ tasks' = [tasks EXCEPT ![t] = IdleTask]
    /\ heap' = Collect(heap, streamers, tasks')
    /\ lastEvt' = lastEvt
    /\ lastPost' = IF ok THEN "ok" ELSE "failed"
    /\ UNCHANGED <<streamers, webhook, disk, nSaves, GAME_CACHE, WS_CLIENTS, wsState, inbox,
                   faultsLeft, nEvents, nAdmin, lastNote, lastBcast, lastEv, raised>>


\* ------------------------------------------------------------ save_store
\* tmp.write_text may raise (disk full, permissions); tmp.replace is atomic, so
\* a failed save leaves store.json as it was.
SaveOutcomes == IF faultsLeft > 0 THEN BOOLEAN ELSE {TRUE}

\* save_store(store) followed by "await push_update_to_clients()".  When the
\* write raises, the exception leaves the handler: nothing after it runs.
SaveAndPush(t, tk, st, h, ok) ==
    IF ok
    THEN /\ disk' = Snapshot(st, h)
         /\ nSaves' = nSaves + 1
         /\ UNCHANGED <<faultsLeft, raised>>
         /\ StartPush(t, [tk EXCEPT !.saved = Snapshot(st, h)], st, h)
    ELSE /\ disk' = disk
         /\ nSaves' = nSaves
         /\ faultsLeft' = faultsLeft - 1
         /\ raised' = raised \cup {tk.kind}
         /\ streamers' = st
         /\ tasks' = [tasks EXCEPT ![t] = IdleTask]
         /\ heap' = Collect(h, st, tasks')
         /\ UNCHANGED <<WS_CLIENTS, inbox, lastNote, lastBcast>>

\* ------------------------------------------------------ EventSub handlers
ApplyOnline(rec, startedAt) == [rec EXCEPT !.is_live = TRUE, !.started_at = startedAt]

ApplyOffline(rec, now) == [rec EXCEPT !.is_live = FALSE, !.last_live = now]

\* "if title is not None:" left out
ApplyTitleAlways(rec, title) == [rec EXCEPT !.title = title]

ApplyTitle(rec, title) == IF title # None THEN [rec EXCEPT !.title = title] ELSE rec

LastEvAfter(uid, kind) ==
    [l \in Logins |->
        IF HasLogin(streamers, l) /\ heap[RefOf(streamers, l)].user_id = uid
        THEN kind ELSE lastEv[l]]

\* history: a live/offline handler is numbered after every handler that is
\* in progress when it is invoked, so of two handlers in progress the one
\* with the smaller seq was invoked first
NextSeq == 1 + Max({tasks[t].seq : t \in TaskIds})

NewTask(kind, m) ==
    [IdleTask EXCEPT !.kind = kind, !.login = m.login, !.s = m.ref]

EventGuard ==
    /\ nEvents < MaxEvents
    /\ FreeTasks # {}

NoEffect ==
    UNCHANGED <<streamers, heap, disk, nSaves, WS_CLIENTS, inbox, tasks, faultsLeft, lastNote,
                lastBcast, raised>>

on_online(uid, startedAt, ok) ==
    /\ UNCHANGED <<upstream, lastUpd, lastAdd>>
    /\ EventGuard
    /\ nEvents' = nEvents + 1
    /\ lastEvt' = [kind |-> "live", uid |-> uid]
    /\ lastPost' = lastPost
    /\ lastEv' = LastEvAfter(uid, "live")
    /\ UNCHANGED <<webhook, GAME_CACHE, wsState, nAdmin>>
    /\ IF HasMatch(streamers, heap, uid)
       THEN LET m  == FirstMatch(streamers, heap, uid)
                t  == Min(FreeTasks)
                tk == [NewTask("on_online", m)
                          EXCEPT !.edge = ~heap[m.ref].is_live,
                                 !.seq = NextSeq]
                h1 == [heap EXCEPT ![m.ref] = ApplyOnline(@, startedAt)]
            IN  SaveAndPush(t, tk, streamers, h1, ok)
       ELSE NoEffect

on_offline(uid, now, ok) ==
    /\ UNCHANGED <<upstream, lastUpd, lastAdd>>
    /\ EventGuard
    /\ nEvents' = nEvents + 1
    /\ lastEvt' = [kind |-> "offline", uid |-> uid]
    /\ lastPost' = lastPost
    /\ lastEv' = LastEvAfter(uid, "offline")
    /\ UNCHANGED <<webhook, GAME_CACHE, wsState, nAdmin>>
    /\ IF HasMatch(streamers, heap, uid)
       THEN LET m  == FirstMatch(streamers, heap, uid)
                t  == Min(FreeTasks)
                tk == [NewTask("on_offline", m)
                          EXCEPT !.edge = heap[m.ref].is_live,
                                 !.seq = NextSeq]
                h1 == [heap EXCEPT ![m.ref] = ApplyOffline(@, now)]
            IN  SaveAndPush(t, tk, streamers, h1, ok)
       ELSE NoEffect

\* title is None when the event carries none; gameId is "" when the event
\* carries no category_id (None and "" are both falsy at "if game_id:")
on_channel_update(uid, title, gameId, ok) ==
    /\ EventGuard
    /\ nEvents' = nEvents + 1
    /\ lastEvt' = [kind |-> "metadata_update", uid |-> uid]
    /\ lastPost' = lastPost
    /\ UNCHANGED <<webhook, wsState, nAdmin, lastEv, GAME_CACHE, upstream, lastAdd>>
    /\ lastUpd' = IF HasMatch(streamers, heap, uid)
                  THEN [uid |-> uid, title |-> title, gid |-> gameId,
                        ref |-> FirstMatch(streamers, heap, uid).ref]
                  ELSE lastUpd
    /\ IF HasMatch(streamers, heap, uid)
       THEN LET m  == FirstMatch(streamers, heap, uid)
                t  == Min(FreeTasks)
                tk == [NewTask("on_channel_update", m) EXCEPT !.gid = gameId]
                h1 == [heap EXCEPT ![m.ref] = ApplyTitle(@, title)]
                h2 == [h1 EXCEPT ![m.ref].game_id = gameId]
                h3 == [h2 EXCEPT ![m.ref].game_name = NameOfGame(gameId)]
                h4 == [h2 EXCEPT ![m.ref].game_name = None]
            IN  IF gameId = "" THEN SaveAndPush(t, tk, streamers, h1, ok)
                ELSE IF gameId \in GAME_CACHE THEN SaveAndPush(t, tk, streamers, h3, ok)
                ELSE IF ~creds  \* ensure_twitch_client returns None: no await
                THEN SaveAndPush(t, tk, streamers, h4, ok)
                ELSE \* game_name_for awaits client.get_games
                     /\ tasks' = [tasks EXCEPT ![t] = [tk EXCEPT !.pc = "lookup"]]
                     /\ heap' = h2
                     /\ UNCHANGED <<streamers, disk, nSaves, WS_CLIENTS, inbox, faultsLeft,
                                    lastNote, lastBcast, raised>>
       ELSE NoEffect

\* client.get_games answers: the name is cached and written through the
\* handler's reference s, then the store is saved and broadcast
game_name_return(t, found, ok) ==
    /\ tasks[t].pc = "lookup"
    /\ UNCHANGED <<webhook, wsState, nEvents, nAdmin, lastEv, lastEvt, lastPost>>
    /\ twitch' = TRUE    \* ensure_twitch_client made the client if there was none
    /\ UNCHANGED <<creds, es, nConn, subs, lastUpd, lastAdd>>
    /\ LET tk   == tasks[t]
           name == IF found THEN NameOfGame(tk.gid) ELSE None
           h1   == [heap EXCEPT ![tk.s].game_name = name]
       IN  /\ GAME_CACHE' = IF found THEN GAME_CACHE \cup {tk.gid} ELSE GAME_CACHE
           /\ SaveAndPush(t, tk, streamers, h1, ok)


\* --------------------------------------------------------- admin requests
AdminGuard ==
    /\ nAdmin < MaxAdmin
    /\ FreeTasks # {}

\* POST /admin/streamers/add up to "await client.get_users" in
\* resolve_login_to_user (login already stripped and lowercased, not empty).
\* Without credentials ensure_twitch_client returns None without awaiting and
\* the request is answered 400 "User not found" at once.
admin_streamer_add(login) ==
    /\ AdminGuard
    /\ nAdmin' = nAdmin + 1
    /\ lastEvt' = lastEvt
    /\ lastPost' = lastPost
    /\ UNCHANGED <<streamers, heap, webhook, disk, nSaves, GAME_CACHE, WS_CLIENTS, wsState,
                   inbox, faultsLeft, nEvents, lastNote, lastBcast, lastEv, raised,
                   upstream, lastUpd>>
    /\ IF creds
       THEN /\ tasks' = [tasks EXCEPT ![Min(FreeTasks)] =
                            [IdleTask EXCEPT !.kind = "add", !.pc = "resolve",
                                             !.login = login]]
            /\ lastAdd' = lastAdd
       ELSE /\ tasks' = tasks
            /\ lastAdd' = [n |-> lastAdd.n + 1, res |-> "noclient", resp |-> "400"]

\* store["streamers"][login] = {...}: a new dict; an existing key keeps its
\* place in the dict order, a new key goes last
PutRecord(st, login, ref) ==
    IF HasLogin(st, login) THEN [st EXCEPT ![IndexOf(st, login)].ref = ref]
    ELSE Append(st, [login |-> login, ref |-> ref])

\* start_eventsub without its "if es is not None: return"
StartPcNoCheck == IF creds THEN "connect" ELSE IF es = "set" THEN "listen1" ELSE "push"

\* "await start_eventsub()" as called by admin_streamer_add, up to its first
\* await that suspends: where the handler is next (pc), and es and nConn after.
\* ensure_twitch_client does not await when the client exists; with no
\* credentials, or with es set, start_eventsub returns and "if es:" decides.
StartPc == IF creds /\ es = "none" THEN "connect"
           ELSE IF es = "set" THEN "listen1" ELSE "push"

\* "if not user:" left out
ResolvedAlways(res) == TRUE

\* "if not user:": resolve_login_to_user returned a user
Resolved(res) == res # "notfound"

\* get_users answers res ("notfound": no data): 400, or the record is
\* replaced and saved and the handler goes on to start_eventsub
resolve_return(t, res, ok) ==
    /\ tasks[t].pc = "resolve"
    /\ lastEvt' = lastEvt
    /\ lastPost' = lastPost
    /\ twitch' = TRUE    \* ensure_twitch_client made the client if there was none
    /\ UNCHANGED <<webhook, GAME_CACHE, wsState, nEvents, nAdmin, creds, subs, lastUpd>>
    /\ IF ~Resolved(res)
       THEN /\ tasks' = [tasks EXCEPT ![t] = IdleTask]
            /\ lastAdd' = [n |-> lastAdd.n + 1, res |-> res, resp |-> "400"]
            /\ UNCHANGED <<streamers, heap, disk, nSaves, faultsLeft, lastEv, raised,
                           WS_CLIENTS, inbox, lastNote, lastBcast, es, nConn>>
       ELSE LET tk  == tasks[t]
                ref == FreshRef(streamers, tasks)
                old == IF HasLogin(streamers, tk.login)
                       THEN heap[RefOf(streamers, tk.login)].last_live ELSE ""
                st  == PutRecord(streamers, tk.login, ref)
                h1  == [heap EXCEPT ![ref] = NewRecord(res, old)]
                tk1 == [tk EXCEPT !.uid = res, !.saved = Snapshot(st, h1),
                                  !.fresh = ~HasLogin(streamers, tk.login)]
            IN  /\ lastEv' = [lastEv EXCEPT ![tk.login] = "none"]
                /\ lastAdd' = [n |-> lastAdd.n + 1, res |-> res, resp |-> "stored"]
                /\ IF ~ok
                   THEN /\ disk' = disk
                        /\ nSaves' = nSaves
                        /\ faultsLeft' = faultsLeft - 1
                        /\ raised' = raised \cup {"add"}
                        /\ streamers' = st
                        /\ tasks' = [tasks EXCEPT ![t] = IdleTask]
                        /\ heap' = Collect(h1, st, tasks')
                        /\ UNCHANGED <<WS_CLIENTS, inbox, lastNote, lastBcast, es, nConn>>
                   ELSE /\ disk' = Snapshot(st, h1)
                        /\ nSaves' = nSaves + 1
                        /\ UNCHANGED <<faultsLeft, raised>>
                        /\ es' = IF StartPc = "connect" THEN "set" ELSE es
                        /\ nConn' = IF StartPc = "connect" THEN nConn + 1 ELSE nConn
                        /\ IF StartPc = "push"
                           THEN StartPush(t, tk1, st, h1)
                           ELSE /\ streamers' = st
                                /\ tasks' = [tasks EXCEPT ![t] = [tk1 EXCEPT !.pc = StartPc]]
                                /\ heap' = Collect(h1, st, tasks')
                                /\ UNCHANGED <<WS_CLIENTS, inbox, lastNote, lastBcast>>

\* es.listen() returns: start_eventsub takes list(store["streamers"].items())
\* and awaits the first listen_* call of its loop; with nothing tracked it
\* returns and the add handler awaits its own first listen_* call
connect_return(t) ==
    /\ tasks[t].pc = "connect"
    /\ LET uids == [k \in 1 .. Len(streamers) |-> heap[streamers[k].ref].user_id]
       IN  tasks' = [tasks EXCEPT ![t] =
                        [@ EXCEPT !.todo = uids, !.i = 1,
                                  !.pc = IF uids = <<>> THEN "listen1" ELSE "sub1"]]
    /\ lastEvt' = lastEvt
    /\ lastPost' = lastPost
    /\ UNCHANGED <<streamers, heap, webhook, disk, nSaves, GAME_CACHE, WS_CLIENTS, wsState,
                   inbox, faultsLeft, nEvents, nAdmin, lastNote, lastBcast, lastEv, raised,
                   upstream, lastUpd, lastAdd>>

KindAt(pc) == IF pc \in {"sub1", "listen1"} THEN "live"
              ELSE IF pc \in {"sub2", "listen2"} THEN "offline" ELSE "metadata_update"

\* one listen_* call of start_eventsub's loop returns; after the last one of
\* the last streamer start_eventsub returns to the add handler
sub_return(t) ==
    /\ tasks[t].pc \in {"sub1", "sub2", "sub3"}
    /\ subs' = Subscribed(subs, tasks[t].todo[tasks[t].i], KindAt(tasks[t].pc))
    /\ LET tk == tasks[t]
       IN  tasks' = [tasks EXCEPT ![t] =
              IF tk.pc = "sub1" THEN [tk EXCEPT !.pc = "sub2"]
              ELSE IF tk.pc = "sub2" THEN [tk EXCEPT !.pc = "sub3"]
              ELSE IF tk.i < Len(tk.todo) THEN [tk EXCEPT !.i = tk.i + 1, !.pc = "sub1"]
              ELSE [tk EXCEPT !.pc = "listen1"]]
    /\ lastEvt' = lastEvt
    /\ lastPost' = lastPost
    /\ UNCHANGED <<streamers, heap, webhook, disk, nSaves, GAME_CACHE, WS_CLIENTS, wsState,
                   inbox, faultsLeft, nEvents, nAdmin, lastNote, lastBcast, lastEv, raised,
                   creds, twitch, es, nConn, lastUpd, lastAdd>>

\* one of the three es.listen_* calls returns; after the third the handler
\* broadcasts
listen_return(t) ==
    /\ tasks[t].pc \in {"listen1", "listen2", "listen3"}
    /\ subs' = Subscribed(subs, tasks[t].uid, KindAt(tasks[t].pc))
    /\ UNCHANGED <<creds, twitch, es, nConn, lastUpd, lastAdd>>
    /\ lastEvt' = lastEvt
    /\ lastPost' = lastPost
    /\ UNCHANGED <<webhook, disk, nSaves, GAME_CACHE, wsState, faultsLeft, nEvents, nAdmin,
                   lastEv, raised>>
    /\ IF tasks[t].pc = "listen3"
       THEN StartPush(t, tasks[t], streamers, heap)
       ELSE /\ tasks' = [tasks EXCEPT ![t].pc =
                            IF @ = "listen1" THEN "listen2" ELSE "listen3"]
            /\ UNCHANGED <<streamers, heap, WS_CLIENTS, inbox, lastNote, lastBcast>>

DelRecord(st, login) ==
    LET k == IndexOf(st, login) IN SubSeq(st, 1, k - 1) \o SubSeq(st, k + 1, Len(st))

\* POST /admin/streamers/remove
admin_streamer_remove(login, ok) ==
    /\ UNCHANGED <<upstream, lastUpd, lastAdd>>
    /\ AdminGuard
    /\ nAdmin' = nAdmin + 1
    /\ lastEvt' = lastEvt
    /\ lastPost' = lastPost
    /\ UNCHANGED <<webhook, GAME_CACHE, wsState, nEvents>>
    /\ IF HasLogin(streamers, login)
       THEN /\ lastEv' = [lastEv EXCEPT ![login] = "none"]
            /\ SaveAndPush(Min(FreeTasks),
                           [IdleTask EXCEPT !.kind = "remove", !.login = login],
                           DelRecord(streamers, login), heap, ok)
       ELSE /\ lastEv' = lastEv
            /\ NoEffect

\* POST /admin/webhook: the whole store is saved as it is in memory
admin_webhook(url, ok) ==
    /\ UNCHANGED <<upstream, lastUpd, lastAdd>>
    /\ nAdmin < MaxAdmin
    /\ nAdmin' = nAdmin + 1
    /\ webhook' = url
    /\ lastEvt' = lastEvt
    /\ lastPost' = lastPost
    /\ IF ok
       THEN /\ disk' = Snapshot(streamers, heap)
            /\ nSaves' = nSaves + 1
            /\ UNCHANGED <<faultsLeft, raised>>
       ELSE /\ disk' = disk
            /\ nSaves' = nSaves
            /\ faultsLeft' = faultsLeft - 1
            /\ raised' = raised \cup {"webhook"}
    /\ UNCHANGED <<streamers, heap, GAME_CACHE, WS_CLIENTS, wsState, inbox, tasks,
                   nEvents, lastNote, lastBcast, lastEv>>

\* POST /admin/twitch: the credentials are stored (c: both are non-empty after
\* strip) and the store is saved; with credentials the handler then awaits the
\* client (Twitch(...) when there is none, then get_games)
admin_twitch(c, ok) ==
    /\ AdminGuard
    /\ nAdmin' = nAdmin + 1
    /\ creds' = c
    /\ lastEvt' = lastEvt
    /\ lastPost' = lastPost
    /\ IF ok
       THEN /\ disk' = Snapshot(streamers, heap)
            /\ nSaves' = nSaves + 1
            /\ UNCHANGED <<faultsLeft, raised>>
            /\ tasks' = IF c THEN [tasks EXCEPT ![Min(FreeTasks)] =
                                     [IdleTask EXCEPT !.kind = "twitch", !.pc = "token"]]
                        ELSE tasks
       ELSE /\ disk' = disk
            /\ nSaves' = nSaves
            /\ faultsLeft' = faultsLeft - 1
            /\ raised' = raised \cup {"twitch"}
            /\ tasks' = tasks
    /\ UNCHANGED <<streamers, heap, webhook, GAME_CACHE, WS_CLIENTS, wsState, inbox,
                   nEvents, lastNote, lastBcast, lastEv, twitch, es, nConn, subs,
                   lastUpd, lastAdd>>

\* get_games has answered: token_obtained_at is set and the store saved again,
\* inside "try: ... except Exception: pass", so a failing write is swallowed
token_return(t, ok) ==
    /\ tasks[t].pc = "token"
    /\ twitch' = TRUE
    /\ tasks' = [tasks EXCEPT ![t] = IdleTask]
    /\ lastEvt' = lastEvt
    /\ lastPost' = lastPost
    /\ IF ok
       THEN /\ disk' = Snapshot(streamers, heap)
            /\ nSaves' = nSaves + 1
            /\ faultsLeft' = faultsLeft
       ELSE /\ disk' = disk
            /\ nSaves' = nSaves
            /\ faultsLeft' = faultsLeft - 1
    /\ UNCHANGED <<streamers, heap, webhook, GAME_CACHE, WS_CLIENTS, wsState, inbox,
                   nEvents, nAdmin, lastNote, lastBcast, lastEv, raised, creds, es, nConn,
                   subs, lastUpd, lastAdd>>

\* ------------------------------------------------------------ /ws endpoint
\* what the endpoint sends first
InitialPayload == Snapshot(streamers, heap)

\* ws_endpoint without its "Send initial state"
ws_register_noinit(w, ok) ==
    /\ UNCHANGED <<upstream, lastUpd, lastAdd>>
    /\ wsState[w] = "idle"
    /\ \A v \in Subs : v < w => wsState[v] # "idle"
    /\ WS_CLIENTS' = Append(WS_CLIENTS, w)
    /\ wsState' = [wsState EXCEPT ![w] = IF ok THEN "open" ELSE "failed"]
    /\ UNCHANGED <<streamers, heap, webhook, disk, nSaves, GAME_CACHE, inbox, tasks,
                   faultsLeft, nEvents, nAdmin, lastNote, lastBcast, lastEv, raised,
                   lastEvt, lastPost>>

\* ws_endpoint from the return of ws.accept() to its first suspension: append,
\* then send the initial state.  The send is outside the try: when it raises
\* (the peer is gone already) the handler ends and the finally never runs.
ws_register(w, ok) ==
    /\ UNCHANGED <<upstream, lastUpd, lastAdd>>
    /\ wsState[w] = "idle"
    /\ \A v \in Subs : v < w => wsState[v] # "idle"
    /\ WS_CLIENTS' = Append(WS_CLIENTS, w)
    /\ IF ok
       THEN /\ wsState' = [wsState EXCEPT ![w] = "open"]
            /\ inbox' = [inbox EXCEPT ![w] = Deliver(@, InitialPayload, "initial")]
       ELSE /\ wsState' = [wsState EXCEPT ![w] = "failed"]
            /\ inbox' = inbox
    /\ lastEvt' = lastEvt
    /\ lastPost' = lastPost
    /\ UNCHANGED <<streamers, heap, webhook, disk, nSaves, GAME_CACHE, tasks, faultsLeft,
                   nEvents, nAdmin, lastNote, lastBcast, lastEv, raised>>

\* the browser goes away; the endpoint is still suspended in receive_text
client_close(w) ==
    /\ UNCHANGED <<upstream, lastUpd, lastAdd>>
    /\ wsState[w] = "open"
    /\ wsState' = [wsState EXCEPT ![w] = "closed"]
    /\ lastEvt' = lastEvt
    /\ lastPost' = lastPost
    /\ UNCHANGED <<streamers, heap, webhook, disk, nSaves, GAME_CACHE, WS_CLIENTS, inbox, tasks,
                   faultsLeft, nEvents, nAdmin, lastNote, lastBcast, lastEv, raised>>

\* receive_text raises WebSocketDisconnect; finally: WS_CLIENTS.remove(ws)
ws_cleanup(w) ==
    /\ UNCHANGED <<upstream, lastUpd, lastAdd>>
    /\ wsState[w] = "closed"
    /\ wsState' = [wsState EXCEPT ![w] = "done"]
    /\ WS_CLIENTS' = RemoveFirst(WS_CLIENTS, w)
    /\ lastEvt' = lastEvt
    /\ lastPost' = lastPost
    /\ UNCHANGED <<streamers, heap, webhook, disk, nSaves, GAME_CACHE, inbox, tasks,
                   faultsLeft, nEvents, nAdmin, lastNote, lastBcast, lastEv, raised>>

\* ------------------------------------------------------------------- Next
\* The next-state relations are built from these groups; U, T, Ti, G, L, R and
\* Ok are the sets the inputs are drawn from.
LiveEvents(U, T) ==
    \/ \E u \in U, ts \in T, ok \in SaveOutcomes : on_online(u, ts, ok)
    \/ \E u \in U, ts \in T, ok \in SaveOutcomes : on_offline(u, ts, ok)

UpdateEvents(U, Ti, G) ==
    \/ \E u \in U, ti \in Ti, g \in G, ok \in SaveOutcomes : on_channel_update(u, ti, g, ok)
    \/ \E t \in TaskIds, found \in BOOLEAN, ok \in SaveOutcomes :
          game_name_return(t, found, ok)

Pushes == \E t \in TaskIds : push_resume(t)

Posts == \E t \in TaskIds, ok \in BOOLEAN : discord_post_return(t, ok)

Adds(L, R) ==
    \/ \E l \in L : admin_streamer_add(l)
    \/ \E t \in TaskIds, res \in R, ok \in SaveOutcomes : resolve_return(t, res, ok)
    \/ \E t \in TaskIds : listen_return(t)

\* the steps of a start_eventsub that makes the connection
Starts ==
    \/ \E t \in TaskIds : connect_return(t)
    \/ \E t \in TaskIds : sub_return(t)

Removes(L) == \E l \in L, ok \in SaveOutcomes : admin_streamer_remove(l, ok)

Hooks == \E u \in {"", "url"}, ok \in SaveOutcomes : admin_webhook(u, ok)

Credentials ==
    \/ \E c \in BOOLEAN, ok \in SaveOutcomes : admin_twitch(c, ok)
    \/ \E t \in TaskIds, ok \in SaveOutcomes : token_return(t, ok)

Sockets(W, Ok) ==
    \/ \E w \in W, ok \in Ok : ws_register(w, ok)
    \/ \E w \in W : client_close(w)
    \/ \E w \in W : ws_cleanup(w)

Next ==
    \/ LiveEvents(EventUIDs, Times)
    \/ UpdateEvents(EventUIDs, Titles \cup {None}, GameIds \cup {""})
    \/ Pushes
    \/ Posts
    \/ Adds(Logins, UIDs \cup {"notfound"})
    \/ Starts
    \/ Removes(Logins)
    \/ Hooks
    \/ Credentials
    \/ Sockets(Subs, BOOLEAN)

Spec == Init /\ [][Next]_vars

\* live/offline events of one channel, subscribers and the webhook
NextLive == LiveEvents({"u1"}, {"T1"}) \/ Pushes \/ Posts \/ Sockets(Subs, BOOLEAN)

SpecLive == Init /\ [][NextLive]_vars

\* subscribers registering, the first of them also leaving, while live/offline
\* events of one channel are broadcast; no webhook is configured
NextJoin ==
    \/ LiveEvents({"u1"}, {"T1"})
    \/ Pushes
    \/ \E w \in Subs, ok \in BOOLEAN : ws_register(w, ok)
    \/ client_close(1)
    \/ ws_cleanup(1)

SpecJoin == InitWith(0, {""}) /\ [][NextJoin]_vars

\* live/offline events of one channel with the webhook configured, one
\* subscriber
NextHook == LiveEvents({"u1"}, {"T1"}) \/ Pushes \/ Posts \/ Sockets({1}, {TRUE})

SpecHook == Init /\ [][NextHook]_vars

\* live/offline events of both channels and add requests, no subscribers
NextTrack ==
    \/ LiveEvents(UIDs, {"T1"})
    \/ Posts
    \/ Adds(Logins, UIDs \cup {"notfound"})

SpecTrack == Init /\ [][NextTrack]_vars

\* metadata updates of one channel, live/offline events of the other, one
\* subscriber
NextMeta ==
    \/ UpdateEvents({"u1"}, {None, "t1"}, {"", "g1"})
    \/ LiveEvents({"u2"}, {"T1"})
    \/ Pushes
    \/ Posts
    \/ Sockets({1}, {TRUE})

SpecMeta == Init /\ [][NextMeta]_vars

\* events of the three kinds for a tracked channel that an admin may remove (u1)
\* and for a channel never tracked (u9); one subscriber, whose peer may go away
NextGone ==
    \/ LiveEvents({"u1", "u9"}, {"T1"})
    \/ UpdateEvents({"u1", "u9"}, {"t1"}, {"g1"})
    \/ Removes({"alice"})
    \/ Pushes
    \/ Posts
    \/ ws_register(1, TRUE)
    \/ client_close(1)

SpecGone == Init /\ [][NextGone]_vars

\* add and remove requests, from a started connection or from a first run
\* whose credentials have just been set; no subscriber
NextSub ==
    \/ Adds(Logins, UIDs \cup {"notfound"})
    \/ Starts
    \/ Removes(Logins)

SpecSub == (Init \/ InitFresh(TRUE)) /\ [][NextSub]_vars

\* metadata updates of one channel with two categories, one subscriber
NextOrder ==
    \/ UpdateEvents({"u1"}, {None, "t1"}, {"", "g1", "g2"})
    \/ Pushes
    \/ Sockets({1}, {TRUE})

SpecOrder == Init /\ [][NextOrder]_vars

\* add requests and credential changes, from a started connection or from a
\* first run without credentials; one subscriber
NextCold ==
    \/ Credentials
    \/ Adds(Logins, UIDs \cup {"notfound"})
    \/ Starts
    \/ Pushes
    \/ Sockets({1}, {TRUE})

SpecCold == (Init \/ InitFresh(FALSE)) /\ [][NextCold]_vars

\* live/offline events of one channel while an admin adds its login again and
\* changes the webhook and the credentials; one subscriber
NextAdmin ==
    \/ LiveEvents({"u1"}, {"T1"})
    \/ Adds({"alice"}, {"u1", "notfound"})
    \/ Hooks
    \/ Credentials
    \/ Pushes
    \/ Posts
    \/ Sockets({1}, {TRUE})

SpecAdmin == Init /\ [][NextAdmin]_vars

\* live/offline events and metadata updates of one channel with the webhook
\* configured; one subscriber
NextNote ==
    \/ LiveEvents({"u1"}, {"T1"})
    \/ UpdateEvents({"u1"}, {"t1"}, {"g1"})
    \/ Pushes
    \/ Posts
    \/ Sockets({1}, {TRUE})

SpecNote == Init /\ [][NextNote]_vars

\* writes of store.json may fail
NextFault == LiveEvents({"u1"}, {"T1"}) \/ Removes({"bob"}) \/ Posts

SpecFault == InitWith(MaxFaults, {"url"}) /\ [][NextFault]_vars


\* ======================================================================
\* The claims
\* ======================================================================
Registry == Snapshot(streamers, heap)

RecordOf(l) == heap[RefOf(streamers, l)]

Tracked == {l \in Logins : HasLogin(streamers, l)}

\* C1: a webhook notification is dispatched only by an event that changes
\* is_live: the post started last was started by a handler that found
\* is_live different from what its event set it to.
C1_NotifyOnlyOnEdge == lastNote.n = 1 => lastNote.edge

\* C2: what the broadcast of a change sends to a subscriber is the registry
\* content that the change persisted with save_store.
C2_BroadcastIsPersisted ==
    \A w \in Subs, t \in TaskIds :
        inbox[w].lastFrom = TaskTag(t) => inbox[w].last = tasks[t].saved

\* C3: a broadcast passes every websocket that was registered from its start to
\* the end of its loop to send_text exactly once.
C3_NoSkipNoDuplicate == lastBcast.missed = {} /\ lastBcast.twice = {}

\* C4: for every tracked record, is_live tells the kind of the last live/offline
\* event delivered for the record's channel_id since the record was added.
C4_LastEventWins ==
    \A l \in Tracked :
        lastEv[l] # "none" => (RecordOf(l).is_live <=> lastEv[l] = "live")

\* a record whose category fields come from the same metadata_update: the name
\* is the one looked up for the id (None when the lookup found nothing)
WholeRecord(rec) ==
    IF rec.game_id = "" THEN rec.game_name = ""
    ELSE rec.game_name \in {NameOfGame(rec.game_id), None}

WholeSnapshot(snap) == \A k \in 1 .. Len(snap) : WholeRecord(snap[k].rec)

\* C5: no persisted registry and no registry sent to a subscriber holds a record
\* whose category_id is written and whose category_name is not yet.
C5_NoHalfApplied ==
    /\ WholeSnapshot(disk)
    /\ \A w \in Subs : WholeSnapshot(inbox[w].last)


\* C6: a websocket that registers has the endpoint's full_update of the registry
\* as it is at registration as its first message: no broadcast message, of a
\* broadcast in flight or of a later one, reaches it before.
C6_InitialSnapshotFirst ==
    /\ [](\A w \in Subs : wsState[w] = "open" => inbox[w].firstFrom = "initial")
    /\ [](\A w \in Subs : inbox[w].firstFrom # "broadcast")
    /\ [][\A w \in Subs :
            (wsState[w] = "idle" /\ wsState'[w] = "open") =>
                /\ inbox'[w].lastFrom = "initial"
                /\ inbox'[w].last = Registry]_vars

\* a websocket that registered while a broadcast was in flight has received its
\* initial message and then the message of that broadcast
C6_Witness ==
    \E w \in Subs, t \in TaskIds :
        /\ tasks[t].pc = "send"
        /\ w \notin tasks[t].clients0
        /\ inbox[w].firstFrom = "initial"
        /\ inbox[w].lastFrom = TaskTag(t)

NoRecordWith(uid) ==
    \A k \in 1 .. Len(streamers) : heap[streamers[k].ref].user_id # uid

\* C7: the delivery of an event whose channel_id no record carries changes
\* neither the registry nor store.json, starts no handler and no broadcast,
\* sends nothing and posts nothing.
C7_UnknownChannelNoOp ==
    [][(nEvents' = nEvents + 1 /\ NoRecordWith(lastEvt'.uid)) =>
          /\ streamers' = streamers
          /\ heap' = heap
          /\ disk' = disk
          /\ nSaves' = nSaves
          /\ tasks' = tasks
          /\ inbox' = inbox
          /\ WS_CLIENTS' = WS_CLIENTS
          /\ lastBcast' = lastBcast
          /\ lastNote' = lastNote]_vars

\* a live event for the channel of alice was delivered after alice was removed:
\* the one write of store.json is that of the removal
C7_Witness ==
    /\ lastEvt = [kind |-> "live", uid |-> "u1"]
    /\ NoRecordWith("u1")
    /\ nEvents = 1
    /\ nAdmin = 1
    /\ nSaves = 1
    /\ lastNote.n = 0

\* C8: a broadcast in which a send raised has still passed every other
\* registered websocket to send_text, and the websockets whose send raised are
\* out of WS_CLIENTS when it returns.
C8_FailureIsolated ==
    lastBcast.failed # {} => (lastBcast.missed = {} /\ lastBcast.deadLeft = {})

\* C9: the end of a webhook POST, failed or not, changes nothing but the
\* handler that awaited it, which returns without raising; and an event
\* delivered while a POST is pending is applied, persisted and broadcast.
C9_WebhookFailureIsolated ==
    /\ [][\A t \in TaskIds :
            (tasks[t].pc = "post" /\ tasks'[t].pc # "post") =>
                /\ tasks'[t] = IdleTask
                /\ raised' = raised
                /\ Registry' = Registry
                /\ disk' = disk
                /\ inbox' = inbox
                /\ WS_CLIENTS' = WS_CLIENTS]_vars
    /\ [][(/\ nEvents' = nEvents + 1
           /\ \E t \in TaskIds : tasks[t].pc = "post"
           /\ ~NoRecordWith(lastEvt'.uid)
           /\ lastEvt'.kind \in {"live", "offline"}) =>
              /\ heap'[FirstMatch(streamers, heap, lastEvt'.uid).ref].is_live
                    = (lastEvt'.kind = "live")
              /\ disk' = Registry'
              /\ nSaves' = nSaves + 1
              /\ (WS_CLIENTS # <<>> /\ wsState[WS_CLIENTS[1]] = "open") =>
                    inbox'[WS_CLIENTS[1]].last = Registry']_vars

\* a POST has failed, another is still pending, and the event delivered while it
\* is pending is in the registry, in store.json and in a subscriber's inbox
C9_Witness ==
    /\ lastPost = "failed"
    /\ raised = {}
    /\ \E t \in TaskIds : tasks[t].pc = "post" /\ tasks[t].at < nEvents
    /\ lastEvt.kind = "offline"
    /\ ~RecordOf("alice").is_live
    /\ disk = Registry
    /\ \E w \in Subs : inbox[w].last = Registry /\ inbox[w].lastFrom = "past"

\* C10: once a write of store.json has failed, the registry in memory is the
\* registry last written.
C10_NoDivergence == raised # {} => Registry = disk

\* C11: when an add request for a login that was not tracked has made its three
\* listen_* calls, the user id it added has exactly one subscription of each
\* kind, and the calls touched the subscriptions of no other user id.
C11_OneSubscriptionPerKind ==
    [][\A t \in TaskIds :
          (tasks[t].pc = "listen3" /\ tasks'[t].pc # "listen3" /\ tasks[t].fresh) =>
              /\ \A k \in Kinds : subs'[tasks[t].uid][k] = 1
              /\ \A u \in UIDs \ {tasks[t].uid} : subs'[u] = subs[u]]_vars

\* the step in which the start_eventsub call that made the connection returns
StartCompletes(t) == tasks[t].pc = "sub3" /\ tasks'[t].pc = "listen1"

UidsTracked == {heap[streamers[k].ref].user_id : k \in 1 .. Len(streamers)}

HasAllKinds(sb, u) == \A k \in Kinds : sb[u][k] >= 1

\* C12 as stated: the connection is made at most once, and when the
\* start_eventsub call that made it returns, every tracked user id has a
\* subscription of each of the three kinds.
C12_OnceAndAllTracked ==
    /\ [](nConn <= 1)
    /\ [][\A t \in TaskIds :
            StartCompletes(t) => \A u \in UidsTracked' : HasAllKinds(subs', u)]_vars

\* C12 amended: the connection is made at most once (es is set exactly when
\* it has been made); when the call that made it returns, every user id that
\* was tracked when es.listen() returned has a subscription of each kind; and
\* an add request that stored its record meanwhile has them for its user id
\* when its own three listen_* calls have returned.
C12_OnceAndSnapshotSubscribed ==
    /\ [](nConn <= 1 /\ (es = "set" <=> nConn = 1))
    /\ [][\A t \in TaskIds :
            StartCompletes(t) => \A u \in SeqToSet(tasks[t].todo) : HasAllKinds(subs', u)]_vars
    /\ [][\A t \in TaskIds :
            (tasks[t].pc = "listen3" /\ tasks'[t].pc # "listen3") =>
                HasAllKinds(subs', tasks[t].uid)]_vars

\* the call that made the one connection has returned while a second add
\* request, which found es set, has stored a user id that has no subscription
C12_Witness ==
    /\ nConn = 1
    /\ \E t \in TaskIds : tasks[t].pc = "listen1" /\ tasks[t].todo # <<>>
    /\ \E t \in TaskIds :
          /\ tasks[t].pc = "listen1" /\ tasks[t].todo = <<>>
          /\ tasks[t].uid \in UidsTracked
          /\ \A k \in Kinds : subs[tasks[t].uid][k] = 0

\* no on_channel_update handler is between its invocation and its return
UpdatesDone == \A t \in TaskIds : tasks[t].kind # "on_channel_update"

\* C13: once the handlers of the metadata updates delivered for a channel have
\* returned, the record carries the title, category id and category name of the
\* update delivered last (the name as looked up for that id, or None when the
\* lookup found nothing).
C13_LastUpdateWins ==
    (UpdatesDone /\ lastUpd.uid # "" /\ HasMatch(streamers, heap, lastUpd.uid)) =>
        LET rec == heap[FirstMatch(streamers, heap, lastUpd.uid).ref]
        IN  /\ lastUpd.title # None => rec.title = lastUpd.title
            /\ lastUpd.gid # "" =>
                  /\ rec.game_id = lastUpd.gid
                  /\ rec.game_name \in {NameOfGame(lastUpd.gid), None}

\* C14: an add request whose login is not resolved (get_users gave nothing, or
\* there is no client to ask) is answered 400 and changes neither the registry
\* nor store.json nor the connection and its subscriptions, and sends nothing
\* to a subscriber.
C14_UnresolvedAddNoOp ==
    [][(lastAdd'.n = lastAdd.n + 1 /\ lastAdd'.res \in {"notfound", "noclient"}) =>
          /\ lastAdd'.resp = "400"
          /\ streamers' = streamers
          /\ heap' = heap
          /\ disk' = disk
          /\ nSaves' = nSaves
          /\ es' = es
          /\ nConn' = nConn
          /\ subs' = subs
          /\ inbox' = inbox
          /\ lastBcast' = lastBcast
          /\ \A t \in TaskIds : tasks'[t].kind # "add" \/ tasks'[t] = tasks[t]]_vars

\* with a subscriber connected, a second add request has been resolved and
\* answered 400 because get_users found no such login
C14_Witness ==
    /\ lastAdd = [n |-> 2, res |-> "notfound", resp |-> "400"]
    /\ wsState[1] = "open"
    /\ inbox[1].firstFrom = "initial"
    /\ Registry = disk

\* C15: every record of the registry with is_live = false has an empty
\* started_at.
C15_OfflineHasNoStart ==
    \A k \in 1 .. Len(streamers) :
        ~heap[streamers[k].ref].is_live => heap[streamers[k].ref].started_at = ""

\* the fields of a record that events maintain
EventFields(rec) == <<rec.is_live, rec.started_at, rec.title, rec.game_id, rec.game_name>>

\* a step of an EventSub handler that writes to a record: the invocation of a
\* handler, or on_channel_update resuming from its category lookup
EventStep ==
    \/ nEvents' # nEvents
    \/ \E t \in TaskIds : tasks[t].pc = "lookup" /\ tasks'[t].pc # "lookup"

\* C16: a step that is not the application of an event leaves the is_live,
\* started_at, title, category id and category name of every record that is
\* tracked before and after it as they were.
C16_OnlyEventsChangeRecords ==
    [][~EventStep =>
          \A l \in Logins :
              (HasLogin(streamers, l) /\ HasLogin(streamers', l)) =>
                  EventFields(heap'[RefOf(streamers', l)])
                      = EventFields(heap[RefOf(streamers, l)])]_vars

\* the record of the handler's login as the handler saved it, right after it
\* applied its event
SavedRec(tk) == (CHOOSE e \in SeqToSet(tk.saved) : e.login = tk.login).rec

\* the notification text built from the record as it was when the edge was
\* applied
DescAtEdge(tk) ==
    IF tk.kind = "on_online" THEN OnlineDesc(tk.login, SavedRec(tk))
    ELSE OfflineDesc(tk.login, SavedRec(tk))

\* C17: the notification a live/offline handler posts carries the display
\* name, title, category and timestamp the record had when the handler applied
\* its event.
C17_NoteFromEdgeState ==
    [][\A t \in TaskIds :
          (tasks[t].pc # "post" /\ tasks'[t].pc = "post") =>
              lastNote'.desc = DescAtEdge(tasks'[t])]_vars

\* the fields no metadata update may write
KeptFields(rec) == <<rec.user_id, rec.display_name, rec.is_live, rec.started_at, rec.last_live>>

\* C18: a metadata update writes the title only when the event carries one and
\* the category id and name only when it carries a category id; when it resumes
\* from the category lookup it writes the category name only.  It writes to the
\* matched record only, never to is_live, started_at or last_live, and starts
\* no notification.
C18_UpdateTouchesOnlyItsFields ==
    /\ [][(nEvents' = nEvents + 1 /\ lastEvt'.kind = "metadata_update"
              /\ HasMatch(streamers, heap, lastEvt'.uid)) =>
             /\ streamers' = streamers
             /\ lastNote' = lastNote
             /\ \A t \in TaskIds : tasks'[t].pc = "post" => tasks[t].pc = "post"
             /\ \A k \in 1 .. Len(streamers) :
                   LET old == heap[streamers[k].ref]
                       new == heap'[streamers[k].ref]
                   IN  /\ KeptFields(new) = KeptFields(old)
                       /\ streamers[k].ref # lastUpd'.ref => new = old
                       /\ streamers[k].ref = lastUpd'.ref =>
                             new.title = IF lastUpd'.title = None THEN old.title
                                         ELSE lastUpd'.title
                       /\ lastUpd'.gid = "" =>
                             (new.game_id = old.game_id /\ new.game_name = old.game_name)]_vars
    /\ [][\A t \in TaskIds :
             (tasks[t].pc = "lookup" /\ tasks'[t].pc # "lookup") =>
                /\ streamers' = streamers
                /\ lastNote' = lastNote
                /\ \A t2 \in TaskIds : tasks'[t2].pc = "post" => tasks[t2].pc = "post"
                /\ \A k \in 1 .. Len(streamers) :
                      LET old == heap[streamers[k].ref]
                          new == heap'[streamers[k].ref]
                      IN  /\ [new EXCEPT !.game_name = ""] = [old EXCEPT !.game_name = ""]
                          /\ streamers[k].ref # tasks[t].s => new = old]_vars

\* an update without a title but with a category has been applied to alice
\* after one that set her title: the title is kept and the category written
C18_Witness ==
    /\ UpdatesDone
    /\ lastUpd.uid = "u1" /\ lastUpd.title = None /\ lastUpd.gid = "g1"
    /\ RecordOf("alice").title = "t1"
    /\ RecordOf("alice").game_id = "g1"
    /\ RecordOf("alice").game_name = "Game One"

\* C19: no two records of the registry carry the same user id.
C19_UniqueChannelId ==
    \A j, k \in 1 .. Len(streamers) :
        j # k => heap[streamers[j].ref].user_id # heap[streamers[k].ref].user_id

\* no handler is between its invocation and its return
Quiescent == \A t \in TaskIds : tasks[t] = IdleTask

\* C20: when no handler is in progress, store.json holds the registry and the
\* last message of every connected subscriber carries it.
C20_QuiescentViewsAgree ==
    Quiescent =>
        /\ disk = Registry
        /\ \A w \in Subs : wsState[w] = "open" => inbox[w].last = Registry

\* handler t starts its webhook POST in this step
StartsPost(t) == tasks[t].pc # "post" /\ tasks'[t].pc = "post"

\* after the step, handler t2 has applied a liveness edge of the channel of
\* login l, delivered before the event numbered n, and is still suspended in
\* its broadcast: its notification has not been started
EarlierEdgePending(t2, l, n) ==
    /\ tasks'[t2].kind \in {"on_online", "on_offline"}
    /\ tasks'[t2].login = l
    /\ tasks'[t2].edge
    /\ tasks'[t2].seq < n
    /\ tasks'[t2].pc = "send"

\* C21: the webhook POSTs of one channel's liveness edges are started in the
\* order of the edges: when the handler of an edge starts its POST, no handler
\* of an earlier edge of the same channel is still waiting in its broadcast.
\* In particular went_offline is not posted before the went_live of the live
\* session it ends.
C21_NotesInEdgeOrder ==
    [][\A t \in TaskIds :
          (StartsPost(t) /\ tasks'[t].edge) =>
              \A t2 \in TaskIds \ {t} :
                  ~EarlierEdgePending(t2, tasks'[t].login, tasks'[t].seq)]_vars

\* the ws_endpoint handler of websocket w has ended: its initial send raised,
\* or receive_text raised WebSocketDisconnect and the finally block has run
Terminated(w) == wsState[w] \in {"failed", "done"}

\* C22: WS_CLIENTS holds no websocket twice and no websocket whose ws_endpoint
\* handler has ended.
C22_SubscriberSetHygiene ==
    /\ \A w \in Subs : Count(WS_CLIENTS, w) <= 1
    /\ \A w \in SeqToSet(WS_CLIENTS) : ~Terminated(w)

====
